---------------------------- MODULE Spec2Model ----------------------------
(***************************************************************************)
(* A model of gmail-mcp.                                                   *)
(*                                                                         *)
(*  - src/src/_client.py: with_oauth_retry, run as asyncio tasks on one    *)
(*    event loop (specification Spec).                                     *)
(*  - src/src/server.py, src/src/gmail.py, src/src/smoke.py: the server's  *)
(*    start-up, the tool catalog and the Gmail tool handlers               *)
(*    (specification SpecServer).                                          *)
(***************************************************************************)
EXTENDS Integers, Sequences, FiniteSets, TLC

VARIABLES
    pc,         \* task -> position inside with_oauth_retry
    running,    \* the task that holds the event loop's thread, 0 when the loop is idle
    log,        \* task -> the observable steps of its with_oauth_retry call, in order
    first,      \* task -> what the first fn() ended with
    second,     \* task -> what the second fn() ended with
    url,        \* task -> the local variable url
    printed,    \* task -> what print(url) wrote
    opened,     \* task -> what webbrowser.open was given
    outcome,    \* task -> how with_oauth_retry ended (returned or raised)
    cancelReq   \* task -> Task.cancel() was requested and not yet delivered

clientVars == <<pc, running, log, first, second, url, printed, opened, outcome, cancelReq>>

\* The server's state.
VARIABLES
    phase,      \* where server.main is: "new", "created", "collected", "serving"
    registry,   \* the names of the Connections the server was created with
    catalog,    \* the tools the server collected, in order
    req         \* request slot -> the tool invocation in flight in it

serverVars == <<phase, registry, catalog, req>>

vars == <<clientVars, serverVars>>

(***************************************************************************)
(* Bounds.                                                                 *)
(***************************************************************************)
NumTasks == 2

Tasks == 1..NumTasks

\* The task asyncio.run(main()) creates: the one its SIGINT handler cancels.
MainTask == 1

(***************************************************************************)
(* JSON values as Python holds them: None, str, dict (insertion-ordered    *)
(* key/value pairs).                                                       *)
(***************************************************************************)
JNull == [t |-> "null"]

JStr(s) == [t |-> "str", s |-> s]

JMap(m) == [t |-> "map", m |-> m]

EmptyDict == JMap(<<>>)

\* isinstance(v, dict)
IsDict(v) == v.t = "map"

\* bool(v)
Truthy(v) ==
    CASE v.t = "null" -> FALSE
      [] v.t = "str" -> v.s # ""
      [] v.t = "map" -> Len(v.m) > 0

HasKey(d, k) == \E i \in 1..Len(d.m) : d.m[i][1] = k

\* d.get(k, default)
DictGet(d, k, default) ==
    IF HasKey(d, k)
    THEN LET i == CHOOSE j \in 1..Len(d.m) : d.m[j][1] = k IN d.m[i][2]
    ELSE default

(***************************************************************************)
(* The error bodies an AuthenticationError can carry.                      *)
(***************************************************************************)
UrlX == JStr("https://x")

UrlY == JStr("https://y")

AuthBodies ==
    { JNull,                                                   \* no body
      EmptyDict,                                               \* {}
      JMap(<< <<"detail", JNull>> >>),                         \* {"detail": null}
      JMap(<< <<"detail", JStr("Unauthorized")>> >>),          \* {"detail": "Unauthorized"}
      JMap(<< <<"detail", EmptyDict>> >>),                     \* {"detail": {}}
      JMap(<< <<"connect_url", JStr("")>> >>),                 \* {"connect_url": ""}
      JMap(<< <<"connect_url", UrlX>> >>),                     \* top level
      JMap(<< <<"detail", JMap(<< <<"connect_url", UrlX>> >>)>> >>),   \* nested
      JMap(<< <<"connect_url", UrlX>>, <<"detail", JNull>> >>),            \* top level, detail null
      JMap(<< <<"connect_url", UrlX>>,
              <<"detail", JMap(<< <<"connect_url", UrlY>> >>)>> >>),   \* both
      JMap(<< <<"connect_url", JStr("")>>,
              <<"detail", JMap(<< <<"connect_url", UrlY>> >>)>> >>) }  \* empty, then nested

(***************************************************************************)
(* What one invocation of the unit of work fn() can end with.  call is the *)
(* number of the invocation that produced the value or the error.          *)
(***************************************************************************)
Ended(kind, body, n) == [kind |-> kind, body |-> body, call |-> n]

NoOutcome == Ended("none", JNull, 0)

\* The bodies drawn for the error of an invocation: every shape for the first,
\* whose body lines 55-56 read; for the second, whose body no line reads, one
\* without a URL and one with a URL.
BodiesOf(n) ==
    IF n = 1
    THEN AuthBodies
    ELSE {JNull, JMap(<< <<"connect_url", UrlY>> >>)}

\* OtherError is an error that is no AuthenticationError; it too carries a body
\* with a connect_url.
FnOutcomes(n) ==
    {Ended("ok", JNull, n), Ended("OtherError", JMap(<< <<"connect_url", UrlX>> >>), n)}
        \cup {Ended("AuthenticationError", b, n) : b \in BodiesOf(n)}

Pending == [how |-> "pending", what |-> NoOutcome]

Returned(o) == [how |-> "return", what |-> o]

Raised(o) == [how |-> "raise", what |-> o]

Count(s, e) == Cardinality({i \in 1..Len(s) : s[i] = e})

Calls(t) == Count(log[t], "call")

Prompts(t) == Count(log[t], "prompt")

(***************************************************************************)
(* with_oauth_retry, lines 55-58: the URL extraction.                      *)
(***************************************************************************)
\* Mutant: except Exception.
CatchesAll(o) == o.kind \in {"AuthenticationError", "OtherError"}

\* except AuthenticationError
Catches(o) == o.kind = "AuthenticationError"

\* Mutant: only the top-level connect_url is read.
ConnectUrlTopOnly(ebody) ==
    LET body == IF IsDict(ebody) THEN ebody ELSE EmptyDict
        top == DictGet(body, "connect_url", JNull)
    IN  IF Truthy(top)
        THEN [kind |-> "url", url |-> top]
        ELSE [kind |-> "reraise", url |-> JNull]

ConnectUrl(ebody) ==
    LET body == IF IsDict(ebody) THEN ebody ELSE EmptyDict
        top == DictGet(body, "connect_url", JNull)
        detail == DictGet(body, "detail", EmptyDict)
    IN  IF Truthy(top)
        THEN [kind |-> "url", url |-> top]
        ELSE IF ~IsDict(detail)
             THEN [kind |-> "AttributeError", url |-> JNull]
             ELSE LET nested == DictGet(detail, "connect_url", JNull)
                  IN  IF Truthy(nested)
                      THEN [kind |-> "url", url |-> nested]
                      ELSE [kind |-> "reraise", url |-> JNull]

(***************************************************************************)
(* The asyncio task running with_oauth_retry(fn).                          *)
(***************************************************************************)
Finish(t, res) ==
    /\ pc' = [pc EXCEPT ![t] = "done"]
    /\ outcome' = [outcome EXCEPT ![t] = res]
    /\ running' = 0

\* The task's first step: line 52 calls fn(), which suspends on its I/O.
\* A task cancelled before its first step never runs its coroutine.
Start(t) ==
    /\ pc[t] = "start"
    /\ running = 0
    /\ IF cancelReq[t]
       THEN /\ Finish(t, Raised(Ended("CancelledError", JNull, 0)))
            /\ cancelReq' = [cancelReq EXCEPT ![t] = FALSE]
            /\ UNCHANGED log
       ELSE /\ pc' = [pc EXCEPT ![t] = "await1"]
            /\ log' = [log EXCEPT ![t] = Append(@, "call")]
            /\ UNCHANGED <<running, outcome, cancelReq>>
    /\ UNCHANGED <<first, second, url, printed, opened>>
    /\ UNCHANGED serverVars

\* Lines 52-53: the first fn() ends.  A pending cancellation is delivered at
\* the await instead of fn's result.
FirstAwait(t, o) ==
    /\ pc[t] = "await1"
    /\ running = 0
    /\ IF cancelReq[t]
       THEN /\ Finish(t, Raised(Ended("CancelledError", JNull, 1)))
            /\ cancelReq' = [cancelReq EXCEPT ![t] = FALSE]
            /\ UNCHANGED first
       ELSE /\ first' = [first EXCEPT ![t] = o]
            /\ UNCHANGED cancelReq
            /\ IF Catches(o)
               THEN /\ pc' = [pc EXCEPT ![t] = "except"]
                    /\ running' = t
                    /\ UNCHANGED outcome
               ELSE Finish(t, IF o.kind = "ok" THEN Returned(o) ELSE Raised(o))
    /\ UNCHANGED <<log, second, url, printed, opened>>
    /\ UNCHANGED serverVars

\* Lines 55-58.
ExtractUrl(t) ==
    /\ pc[t] = "except"
    /\ running = t
    /\ LET r == ConnectUrl(first[t].body)
       IN  CASE r.kind = "url" ->
                  /\ url' = [url EXCEPT ![t] = r.url]
                  /\ pc' = [pc EXCEPT ![t] = "print"]
                  /\ UNCHANGED <<running, outcome>>
             [] r.kind = "reraise" ->
                  /\ Finish(t, Raised(first[t]))
                  /\ UNCHANGED url
             [] r.kind = "AttributeError" ->
                  /\ Finish(t, Raised(Ended("AttributeError", JNull, 0)))
                  /\ UNCHANGED url
    /\ UNCHANGED <<log, first, second, printed, opened, cancelReq>>
    /\ UNCHANGED serverVars

\* Lines 59-61.
PrintUrl(t) ==
    /\ pc[t] = "print"
    /\ running = t
    /\ printed' = [printed EXCEPT ![t] = url[t]]
    /\ log' = [log EXCEPT ![t] = Append(@, "print")]
    /\ pc' = [pc EXCEPT ![t] = "open"]
    /\ UNCHANGED <<running, first, second, url, opened, outcome, cancelReq>>
    /\ UNCHANGED serverVars

\* Line 62.
OpenBrowser(t) ==
    /\ pc[t] = "open"
    /\ running = t
    /\ opened' = [opened EXCEPT ![t] = url[t]]
    /\ log' = [log EXCEPT ![t] = Append(@, "open")]
    /\ pc' = [pc EXCEPT ![t] = "input"]
    /\ UNCHANGED <<running, first, second, url, printed, outcome, cancelReq>>
    /\ UNCHANGED serverVars

\* Mutant: the retry fires without asking the operator.
PromptSkipped(t) ==
    /\ pc[t] = "input"
    /\ running = t
    /\ pc' = [pc EXCEPT ![t] = "retry"]
    /\ UNCHANGED <<running, log, first, second, url, printed, opened, outcome, cancelReq>>
    /\ UNCHANGED serverVars

\* Line 63: input() is called and blocks the calling thread, which is the
\* event loop's thread.
PromptOperator(t) ==
    /\ pc[t] = "input"
    /\ running = t
    /\ log' = [log EXCEPT ![t] = Append(@, "prompt")]
    /\ pc' = [pc EXCEPT ![t] = "blocked"]
    /\ UNCHANGED <<running, first, second, url, printed, opened, outcome, cancelReq>>
    /\ UNCHANGED serverVars

\* Line 63: the operator presses Enter and input() returns.
OperatorEnter(t) ==
    /\ pc[t] = "blocked"
    /\ running = t
    /\ log' = [log EXCEPT ![t] = Append(@, "enter")]
    /\ pc' = [pc EXCEPT ![t] = "retry"]
    /\ UNCHANGED <<running, first, second, url, printed, opened, outcome, cancelReq>>
    /\ UNCHANGED serverVars

\* Line 63: stdin is closed and input() raises EOFError.
PromptEOF(t) ==
    /\ pc[t] = "blocked"
    /\ running = t
    /\ log' = [log EXCEPT ![t] = Append(@, "abort")]
    /\ Finish(t, Raised(Ended("EOFError", JNull, 0)))
    /\ UNCHANGED <<first, second, url, printed, opened, cancelReq>>
    /\ UNCHANGED serverVars

\* Line 63: Ctrl-C raises KeyboardInterrupt inside input().  It leaves the
\* event loop, and asyncio.run cancels the tasks that are left.
SigIntRaise(t) ==
    /\ pc[t] = "blocked"
    /\ running = t
    /\ log' = [log EXCEPT ![t] = Append(@, "abort")]
    /\ Finish(t, Raised(Ended("KeyboardInterrupt", JNull, 0)))
    /\ cancelReq' = [u \in Tasks |-> IF u # t /\ pc[u] # "done" THEN TRUE ELSE cancelReq[u]]
    /\ UNCHANGED <<first, second, url, printed, opened>>
    /\ UNCHANGED serverVars

\* Line 64: fn() is called again and suspends on its I/O.
SecondInvoke(t) ==
    /\ pc[t] = "retry"
    /\ running = t
    /\ log' = [log EXCEPT ![t] = Append(@, "call")]
    /\ pc' = [pc EXCEPT ![t] = "await2"]
    /\ running' = 0
    /\ UNCHANGED <<first, second, url, printed, opened, outcome, cancelReq>>
    /\ UNCHANGED serverVars

\* Mutant: a retry loop, the second AuthenticationError is handled like the first.
SecondAwaitLoops(t, o) ==
    /\ pc[t] = "await2"
    /\ running = 0
    /\ IF cancelReq[t]
       THEN /\ Finish(t, Raised(Ended("CancelledError", JNull, 2)))
            /\ cancelReq' = [cancelReq EXCEPT ![t] = FALSE]
            /\ UNCHANGED <<first, second>>
       ELSE /\ second' = [second EXCEPT ![t] = o]
            /\ UNCHANGED cancelReq
            /\ IF Catches(o)
               THEN /\ first' = [first EXCEPT ![t] = o]
                    /\ pc' = [pc EXCEPT ![t] = "except"]
                    /\ running' = t
                    /\ UNCHANGED outcome
               ELSE /\ Finish(t, IF o.kind = "ok" THEN Returned(o) ELSE Raised(o))
                    /\ UNCHANGED first
    /\ UNCHANGED <<log, url, printed, opened>>
    /\ UNCHANGED serverVars

\* Line 64: the second fn() ends; whatever it ends with leaves with_oauth_retry.
SecondAwait(t, o) ==
    /\ pc[t] = "await2"
    /\ running = 0
    /\ IF cancelReq[t]
       THEN /\ Finish(t, Raised(Ended("CancelledError", JNull, 2)))
            /\ cancelReq' = [cancelReq EXCEPT ![t] = FALSE]
            /\ UNCHANGED second
       ELSE /\ second' = [second EXCEPT ![t] = o]
            /\ Finish(t, IF o.kind = "ok" THEN Returned(o) ELSE Raised(o))
            /\ UNCHANGED cancelReq
    /\ UNCHANGED <<log, first, url, printed, opened>>
    /\ UNCHANGED serverVars

(***************************************************************************)
(* Cancellation requests.                                                  *)
(***************************************************************************)
\* Another callback of the loop calls Task.cancel() on a suspended task.
CancelFromLoop(t) ==
    /\ running = 0
    /\ pc[t] \in {"await1", "await2"}
    /\ ~cancelReq[t]
    /\ cancelReq' = [cancelReq EXCEPT ![t] = TRUE]
    /\ log' = [log EXCEPT ![t] = Append(@, "cancel")]
    /\ UNCHANGED <<pc, running, first, second, url, printed, opened, outcome>>
    /\ UNCHANGED serverVars

\* Ctrl-C under asyncio.run (Python 3.11 and later): its SIGINT handler calls
\* main_task.cancel() and returns, whatever the loop's thread is doing (a
\* blocked input() goes on waiting).  SigIntRaise is the other outcome.
SigIntCancel ==
    /\ pc[MainTask] \notin {"start", "done"}
    /\ ~cancelReq[MainTask]
    /\ cancelReq' = [cancelReq EXCEPT ![MainTask] = TRUE]
    /\ log' = [log EXCEPT ![MainTask] = Append(@, "cancel")]
    /\ UNCHANGED <<pc, running, first, second, url, printed, opened, outcome>>
    /\ UNCHANGED serverVars

TaskStep(t) ==
    \/ Start(t)
    \/ \E o \in FnOutcomes(1) : FirstAwait(t, o)
    \/ ExtractUrl(t)
    \/ PrintUrl(t)
    \/ OpenBrowser(t)
    \/ PromptOperator(t)
    \/ SecondInvoke(t)
    \/ \E o \in FnOutcomes(2) : SecondAwait(t, o)

ClientInit ==
    /\ pc = [t \in Tasks |-> "start"]
    /\ running = 0
    /\ log = [t \in Tasks |-> <<>>]
    /\ first = [t \in Tasks |-> NoOutcome]
    /\ second = [t \in Tasks |-> NoOutcome]
    /\ url = [t \in Tasks |-> JNull]
    /\ printed = [t \in Tasks |-> JNull]
    /\ opened = [t \in Tasks |-> JNull]
    /\ outcome = [t \in Tasks |-> Pending]
    /\ cancelReq = [t \in Tasks |-> FALSE]

(***************************************************************************)
(* The server: src/src/server.py, src/src/gmail.py, src/src/smoke.py.      *)
(***************************************************************************)
\* json.dumps(v, indent=2).  The strings drawn hold no character that JSON
\* escapes.
RECURSIVE Pad(_)
Pad(level) == IF level = 0 THEN "" ELSE "  " \o Pad(level - 1)

RECURSIVE JsonDumps(_, _)
RECURSIVE JsonItems(_, _, _)
JsonItems(m, i, level) ==
    IF i > Len(m)
    THEN ""
    ELSE Pad(level) \o "\"" \o m[i][1] \o "\": " \o JsonDumps(m[i][2], level)
            \o (IF i < Len(m) THEN ",\n" ELSE "\n") \o JsonItems(m, i + 1, level)

JsonDumps(v, level) ==
    CASE v.t = "null" -> "null"
      [] v.t = "str" -> "\"" \o v.s \o "\""
      [] v.t = "map" ->
           IF Len(v.m) = 0
           THEN "{}"
           ELSE "{\n" \o JsonItems(v.m, 1, level + 1) \o Pad(level) \o "}"

TextContent(text) == [type |-> "text", text |-> text]

\* gmail = Connection(name="gmail", ...)
GmailConnection ==
    [name |-> "gmail", token |-> "GMAIL_ACCESS_TOKEN",
     base_url |-> "https://gmail.googleapis.com",
     auth_header_format |-> "Bearer {api_key}"]

\* Mutant: _req names a Connection the server was not created with.
ReqConnectionOther == "google"

\* The connection name _req passes to ctx.dispatch.
ReqConnection == "gmail"

\* Mutant: every tool is annotated readOnlyHint=True.
ToolReadOnly(name, readOnly, method, path) ==
    [name |-> name, readOnlyHint |-> TRUE, method |-> method, path |-> path]

Tool(name, readOnly, method, path) ==
    [name |-> name, readOnlyHint |-> readOnly, method |-> method, path |-> path]

\* smoke_tools: handlers that dispatch nothing.
SmokeTools ==
    << Tool("smoke_echo", TRUE, "none", ""),
       Tool("smoke_info", TRUE, "none", "") >>

\* gmail_tools, in the order of the export list, each with its annotation and
\* the HttpMethod and path its handler gives _req.
GmailTools ==
    << Tool("gmail_list_messages", TRUE, "GET", "/gmail/v1/users/me/messages?"),
       Tool("gmail_get_message", TRUE, "GET", "/gmail/v1/users/me/messages/{message_id}?format="),
       Tool("gmail_send_message", FALSE, "POST", "/gmail/v1/users/me/messages/send"),
       Tool("gmail_trash_message", FALSE, "POST", "/gmail/v1/users/me/messages/{message_id}/trash"),
       Tool("gmail_untrash_message", FALSE, "POST", "/gmail/v1/users/me/messages/{message_id}/untrash"),
       Tool("gmail_modify_message", FALSE, "POST", "/gmail/v1/users/me/messages/{message_id}/modify"),
       Tool("gmail_list_threads", TRUE, "GET", "/gmail/v1/users/me/threads?"),
       Tool("gmail_get_thread", TRUE, "GET", "/gmail/v1/users/me/threads/{thread_id}?format="),
       Tool("gmail_trash_thread", FALSE, "POST", "/gmail/v1/users/me/threads/{thread_id}/trash"),
       Tool("gmail_list_labels", TRUE, "GET", "/gmail/v1/users/me/labels"),
       Tool("gmail_get_label", TRUE, "GET", "/gmail/v1/users/me/labels/{label_id}"),
       Tool("gmail_create_label", FALSE, "POST", "/gmail/v1/users/me/labels"),
       Tool("gmail_delete_label", FALSE, "DELETE", "/gmail/v1/users/me/labels/{label_id}"),
       Tool("gmail_list_drafts", TRUE, "GET", "/gmail/v1/users/me/drafts?maxResults="),
       Tool("gmail_get_draft", TRUE, "GET", "/gmail/v1/users/me/drafts/{draft_id}?format="),
       Tool("gmail_create_draft", FALSE, "POST", "/gmail/v1/users/me/drafts"),
       Tool("gmail_send_draft", FALSE, "POST", "/gmail/v1/users/me/drafts/send"),
       Tool("gmail_delete_draft", FALSE, "DELETE", "/gmail/v1/users/me/drafts/{draft_id}"),
       Tool("gmail_get_profile", TRUE, "GET", "/gmail/v1/users/me/profile") >>


\* Tool invocations the transport runs at once.
MaxInFlight == 1

Slots == 1..MaxInFlight

\* The arguments drawn for smoke_echo.
Messages == {"", "hi"}

(***************************************************************************)
(* What ctx.dispatch can return: success with a response body, or failure  *)
(* with or without an error object.                                        *)
(***************************************************************************)
NoError == [present |-> FALSE, message |-> ""]

ErrorOf(m) == [present |-> TRUE, message |-> m]

Success(body) == [success |-> TRUE, body |-> body, error |-> NoError]

Failure(e) == [success |-> FALSE, body |-> JNull, error |-> e]

DispatchResults ==
    { Success(JMap(<< <<"id", JStr("1")>> >>)),
      Success(JMap(<< <<"message", JMap(<< <<"id", JStr("1")>>, <<"raw", JStr("")>> >>)>>,
                      <<"id", JStr("2")>> >>)),
      Success(EmptyDict),
      Success(JNull),
      Failure(ErrorOf("X")),
      Failure(NoError) }

\* dispatch resolves the Connection by name.
Resolve(name) == name \in registry

(***************************************************************************)
(* gmail.py, _req, lines 44-48.                                            *)
(***************************************************************************)
\* Mutant: data = resp.response.body.
SuccessDataRaw(resp) == resp.body

\* data = resp.response.body or {}
SuccessData(resp) == IF Truthy(resp.body) THEN resp.body ELSE EmptyDict

\* error = resp.error.message if resp.error else "Request failed"
ErrorMessage(resp) ==
    IF resp.error.present THEN resp.error.message ELSE "Request failed"

\* Lines 44-48: the output is one TextContent, for either branch.
ReqResult(resp) ==
    IF resp.success
    THEN << TextContent(JsonDumps(SuccessData(resp), 0)) >>
    ELSE << TextContent(JsonDumps(JMap(<< <<"error", JStr(ErrorMessage(resp))>> >>), 0)) >>

\* smoke.py: smoke_echo and smoke_info build their text themselves.
SmokeOutput(tool, message) ==
    IF tool.name = "smoke_echo"
    THEN << TextContent("Echo: " \o message) >>
    ELSE << TextContent("gmail-mcp server v0.0.1 - Gmail MCP tools via Dedalus framework") >>

NoTool == Tool("", TRUE, "none", "")

NoResult == [success |-> FALSE, body |-> JNull, error |-> NoError]

IdleReq ==
    [pc |-> "idle", tool |-> NoTool, conn |-> "", method |-> "none", path |-> "",
     dispatches |-> 0, resp |-> NoResult, out |-> <<>>, raised |-> ""]

(***************************************************************************)
(* server.py, main.                                                        *)
(***************************************************************************)
\* Line 33: server = create_server(), with connections=[gmail].
CreateServer ==
    /\ phase = "new"
    /\ phase' = "created"
    /\ registry' = {GmailConnection.name}
    /\ UNCHANGED <<catalog, req>>
    /\ UNCHANGED clientVars

\* Line 34: server.collect(*smoke_tools, *gmail_tools).
Collect ==
    /\ phase = "created"
    /\ phase' = "collected"
    /\ catalog' = SmokeTools \o GmailTools
    /\ UNCHANGED <<registry, req>>
    /\ UNCHANGED clientVars

\* Line 35: await server.serve(port=8080).
Serve ==
    /\ phase = "collected"
    /\ phase' = "serving"
    /\ UNCHANGED <<registry, catalog, req>>
    /\ UNCHANGED clientVars

(***************************************************************************)
(* Tool invocations, once the server serves.                               *)
(***************************************************************************)
\* A smoke tool: the handler returns its text without dispatching.
CallSmokeTool(i, k, message) ==
    /\ phase = "serving"
    /\ req[i].pc = "idle"
    /\ catalog[k].method = "none"
    /\ req' = [req EXCEPT ![i] =
                  [IdleReq EXCEPT !.pc = "done", !.tool = catalog[k],
                                  !.out = SmokeOutput(catalog[k], message)]]
    /\ UNCHANGED <<phase, registry, catalog>>
    /\ UNCHANGED clientVars

\* A Gmail tool: the handler builds its request and _req (lines 42-43) calls
\* ctx.dispatch("gmail", HttpRequest(method, path, body)).
CallGmailTool(i, k) ==
    /\ phase = "serving"
    /\ req[i].pc = "idle"
    /\ catalog[k].method # "none"
    /\ req' = [req EXCEPT ![i] =
                  IF Resolve(ReqConnection)
                  THEN [IdleReq EXCEPT !.pc = "dispatch", !.tool = catalog[k],
                                       !.conn = ReqConnection,
                                       !.method = catalog[k].method,
                                       !.path = catalog[k].path,
                                       !.dispatches = 1]
                  ELSE [IdleReq EXCEPT !.pc = "done", !.tool = catalog[k],
                                       !.conn = ReqConnection,
                                       !.method = catalog[k].method,
                                       !.path = catalog[k].path,
                                       !.dispatches = 1,
                                       !.raised = "UnknownConnection"]]
    /\ UNCHANGED <<phase, registry, catalog>>
    /\ UNCHANGED clientVars

\* _req, lines 43-48: dispatch returns and the Result is mapped to the output.
DispatchReturns(i, resp) ==
    /\ req[i].pc = "dispatch"
    /\ req' = [req EXCEPT ![i].pc = "done", ![i].resp = resp,
                           ![i].out = ReqResult(resp)]
    /\ UNCHANGED <<phase, registry, catalog>>
    /\ UNCHANGED clientVars

\* The transport sends the handler's output back; the slot is free again.
Respond(i) ==
    /\ req[i].pc = "done"
    /\ req' = [req EXCEPT ![i] = IdleReq]
    /\ UNCHANGED <<phase, registry, catalog>>
    /\ UNCHANGED clientVars

ServerInit ==
    /\ phase = "new"
    /\ registry = {}
    /\ catalog = <<>>
    /\ req = [i \in Slots |-> IdleReq]

Init == ClientInit /\ ServerInit

ClientNext ==
    \/ \E t \in Tasks : TaskStep(t)
    \/ \E t \in Tasks : OperatorEnter(t)
    \/ \E t \in Tasks : PromptEOF(t)
    \/ \E t \in Tasks : SigIntRaise(t)
    \/ \E t \in Tasks : CancelFromLoop(t)
    \/ SigIntCancel

ServerNext ==
    \/ CreateServer
    \/ Collect
    \/ Serve
    \/ \E i \in Slots, k \in 1..Len(catalog), m \in Messages : CallSmokeTool(i, k, m)
    \/ \E i \in Slots, k \in 1..Len(catalog) : CallGmailTool(i, k)
    \/ \E i \in Slots, resp \in DispatchResults : DispatchReturns(i, resp)
    \/ \E i \in Slots : Respond(i)

\* The client: with_oauth_retry calls as tasks of one event loop.
Next == ClientNext

Spec == Init /\ [][Next]_vars

\* The server: start-up, then tool invocations.
NextServer == ServerNext

SpecServer == Init /\ [][NextServer]_vars


(***************************************************************************)
(* Properties of with_oauth_retry (specification Spec).                    *)
(***************************************************************************)
Done(t) == pc[t] = "done"

IsUrl(v) == v.t = "str" /\ v.s # ""

\* The URL an error body carries, as the payload is documented: connect_url
\* at the top level, or one level under detail.
TopUrl(b) == IF IsDict(b) /\ HasKey(b, "connect_url") THEN DictGet(b, "connect_url", JNull) ELSE JNull

NestedUrl(b) ==
    IF IsDict(b) /\ HasKey(b, "detail") /\ IsDict(DictGet(b, "detail", JNull))
    THEN DictGet(DictGet(b, "detail", JNull), "connect_url", JNull)
    ELSE JNull

Recoverable(b) == IsUrl(TopUrl(b)) \/ IsUrl(NestedUrl(b))

ExpectedUrl(b) == IF IsUrl(TopUrl(b)) THEN TopUrl(b) ELSE NestedUrl(b)

AuthFailedFirst(t) == first[t].kind = "AuthenticationError"

RecoverySteps == <<"call", "print", "open", "prompt", "enter", "call">>

\* What the call itself did: its log without the cancellation requests made of it.
IsStep(e) == e # "cancel"

Steps(t) == SelectSeq(log[t], IsStep)

\* C1: when the first fn() fails with an AuthenticationError whose body holds
\* a connect_url and the second fn() succeeds, with_oauth_retry returns the
\* second invocation's result, fn was invoked exactly twice, and the operator
\* was prompted exactly once, between the two invocations.
C1_RetryReturnsSecondResult ==
    \A t \in Tasks :
        (Done(t) /\ AuthFailedFirst(t) /\ Recoverable(first[t].body) /\ second[t].kind = "ok")
            => /\ outcome[t] = Returned(second[t])
               /\ second[t].call = 2
               /\ Calls(t) = 2
               /\ Prompts(t) = 1
               /\ log[t] = RecoverySteps

C1_Witness ==
    \E t \in Tasks :
        /\ Done(t) /\ AuthFailedFirst(t) /\ Recoverable(first[t].body)
        /\ second[t].kind = "ok" /\ outcome[t].how = "return"

\* C2: when the first fn() fails with an AuthenticationError from which no
\* connect_url is recoverable, with_oauth_retry raises that same error, shows
\* no URL, does not prompt and does not invoke fn again.
C2_NoUrlPropagatesOriginal ==
    \A t \in Tasks :
        (Done(t) /\ AuthFailedFirst(t) /\ ~Recoverable(first[t].body))
            => /\ outcome[t] = Raised(first[t])
               /\ printed[t] = JNull
               /\ opened[t] = JNull
               /\ Prompts(t) = 0
               /\ Calls(t) = 1

\* C3: whatever fn does, one with_oauth_retry call invokes it at most twice and
\* prompts at most once; a failure of the second invocation, another
\* AuthenticationError with a connect_url included, is raised to the caller.
C3_AtMostOneRetry ==
    \A t \in Tasks :
        /\ Calls(t) <= 2
        /\ Prompts(t) <= 1
        /\ (Done(t) /\ second[t].kind \in {"AuthenticationError", "OtherError"})
              => /\ outcome[t] = Raised(second[t])
                 /\ Calls(t) = 2
                 /\ Prompts(t) = 1

C3_Witness ==
    \E t \in Tasks :
        /\ Done(t)
        /\ second[t].kind = "AuthenticationError"
        /\ Recoverable(second[t].body)
        /\ outcome[t] = Raised(second[t])

\* C4: when the first fn() does not fail with an AuthenticationError, its value
\* is returned or its error raised unchanged, fn was invoked exactly once, no
\* URL was shown and the operator was not prompted.
C4_PassThrough ==
    \A t \in Tasks :
        (Done(t) /\ Calls(t) >= 1 /\ ~AuthFailedFirst(t))
            => /\ Calls(t) = 1
               /\ Prompts(t) = 0
               /\ printed[t] = JNull
               /\ opened[t] = JNull
               /\ (first[t].kind = "ok" => outcome[t] = Returned(first[t]))
               /\ (first[t].kind = "OtherError" => outcome[t] = Raised(first[t]))
               /\ (first[t].kind = "none" =>
                      outcome[t] = Raised(Ended("CancelledError", JNull, 1)))

C4_Witness ==
    \E t \in Tasks :
        /\ Done(t)
        /\ first[t].kind = "OtherError"
        /\ Recoverable(first[t].body)
        /\ outcome[t] = Raised(first[t])

\* C5: while one with_oauth_retry call waits for the operator's confirmation,
\* every other task of the loop that is ready to run can take its next step.
C5_OthersRunWhileWaiting ==
    \A t \in Tasks, u \in Tasks :
        (t # u /\ pc[t] = "blocked" /\ pc[u] \in {"start", "await1", "await2"})
            => ENABLED TaskStep(u)

\* A cancellation or an abort of the prompt, after the first fn() failed and
\* before the operator confirmed.
StoppedBeforeConfirm(t) ==
    /\ AuthFailedFirst(t)
    /\ \E i \in 1..Len(log[t]) :
          /\ log[t][i] \in {"cancel", "abort"}
          /\ \A j \in 1..(i - 1) : log[t][j] # "enter"

\* C6: the second fn() starts only after the operator confirmed, and a call
\* that was cancelled, or whose prompt was aborted, after the first fn()
\* failed and before the confirmation never invokes fn a second time.
C6_NoRetryAfterCancel ==
    \A t \in Tasks :
        /\ \A i \in 2..Len(log[t]) :
              log[t][i] = "call" => \E j \in 1..(i - 1) : log[t][j] = "enter"
        /\ StoppedBeforeConfirm(t) => Calls(t) <= 1

\* C7: the URL printed and handed to the browser, before the prompt, is the
\* top-level connect_url when the body has one and the nested one otherwise;
\* a body with only the nested URL leads to the same steps as a body with the
\* same URL at the top level.
C7_PresentedUrl ==
    /\ \A t \in Tasks :
          (AuthFailedFirst(t) /\ Recoverable(first[t].body)) =>
              /\ pc[t] \in {"open", "input", "blocked", "retry", "await2", "done"}
                    => printed[t] = ExpectedUrl(first[t].body)
              /\ pc[t] \in {"input", "blocked", "retry", "await2", "done"}
                    => opened[t] = ExpectedUrl(first[t].body)
              /\ pc[t] \in {"blocked", "retry", "await2", "done"}
                    => SubSeq(Steps(t), 1, 4) = SubSeq(RecoverySteps, 1, 4)
    /\ \A t \in Tasks, u \in Tasks :
          ( /\ Done(t) /\ Done(u)
            /\ AuthFailedFirst(t) /\ AuthFailedFirst(u)
            /\ IsUrl(TopUrl(first[t].body)) /\ NestedUrl(first[t].body) = JNull
            /\ TopUrl(first[u].body) = JNull
            /\ NestedUrl(first[u].body) = TopUrl(first[t].body)
            /\ second[t].kind # "none" /\ second[u].kind # "none" )
              => /\ Steps(t) = Steps(u)
                 /\ printed[t] = printed[u]
                 /\ opened[t] = opened[u]

C7_Witness ==
    \E t \in Tasks, u \in Tasks :
        /\ Done(t) /\ Done(u)
        /\ AuthFailedFirst(t) /\ AuthFailedFirst(u)
        /\ IsUrl(TopUrl(first[t].body)) /\ NestedUrl(first[t].body) = JNull
        /\ TopUrl(first[u].body) = JNull
        /\ NestedUrl(first[u].body) = TopUrl(first[t].body)
        /\ second[t].kind # "none" /\ second[u].kind # "none"
        /\ opened[u] = NestedUrl(first[u].body)

(***************************************************************************)
(* Properties of the server and its tools (specification SpecServer).      *)
(***************************************************************************)
IsGmailCall(r) == r.pc = "done" /\ r.tool.method # "none" /\ r.raised # "UnknownConnection"

\* json.dumps(body, indent=2) of the bodies drawn, written out.
PrettyJson(body) ==
    CASE body = JMap(<< <<"id", JStr("1")>> >>) -> "{\n  \"id\": \"1\"\n}"
      [] body = JMap(<< <<"message", JMap(<< <<"id", JStr("1")>>, <<"raw", JStr("")>> >>)>>,
                        <<"id", JStr("2")>> >>)
            -> "{\n  \"message\": {\n    \"id\": \"1\",\n    \"raw\": \"\"\n  },\n  \"id\": \"2\"\n}"
      [] OTHER -> "{}"

ErrorEnvelope(m) == "{\n  \"error\": \"" \o m \o "\"\n}"

Mutating == {"POST", "PUT", "PATCH", "DELETE"}

\* C9: a tool annotated readOnlyHint=True dispatches only GET requests or
\* nothing, and every tool that dispatches POST, PUT, PATCH or DELETE is
\* annotated readOnlyHint=False.
C9_ReadOnlyHintAccurate ==
    /\ \A i \in Slots :
          req[i].dispatches > 0 =>
              /\ req[i].tool.readOnlyHint => req[i].method = "GET"
              /\ req[i].method \in Mutating => ~req[i].tool.readOnlyHint
    /\ \A k \in 1..Len(catalog) :
          /\ catalog[k].readOnlyHint => catalog[k].method \in {"GET", "none"}
          /\ catalog[k].method \in Mutating => ~catalog[k].readOnlyHint

C9_Witness ==
    \E i \in Slots :
        /\ req[i].dispatches > 0
        /\ req[i].method = "DELETE"
        /\ ~req[i].tool.readOnlyHint

\* C10: tools are invoked only once the server serves, with the registry and
\* the catalog as create_server and collect built them; every Gmail handler
\* dispatches exactly once, to "gmail", which is registered, so no dispatch
\* fails on an unknown connection.
C10_DispatchResolves ==
    /\ phase = "serving" =>
          /\ registry = {"gmail"}
          /\ catalog = SmokeTools \o GmailTools
    /\ \A i \in Slots :
          /\ req[i].pc # "idle" => phase = "serving"
          /\ req[i].raised # "UnknownConnection"
          /\ req[i].dispatches > 0 => (req[i].conn = "gmail" /\ req[i].conn \in registry)
          /\ (req[i].pc # "idle" /\ req[i].tool.method # "none") => req[i].dispatches = 1
          /\ (req[i].pc # "idle" /\ req[i].tool.method = "none") => req[i].dispatches = 0

C10_Witness ==
    \E i \in Slots :
        /\ req[i].pc = "dispatch"
        /\ req[i].conn = "gmail"
        /\ req[i].conn \in registry

=============================================================================
